---- MODULE Spec2Model ----
(***************************************************************************)
(* A model of the notebook nbinteraction.ipynb: the kernel's global        *)
(* namespace, the code cells as statement lists, the widgets the cells     *)
(* create and the callbacks the widgets invoke.                            *)
(***************************************************************************)
EXTENDS Integers, Sequences, FiniteSets, TLC

VARIABLES
    ns,       \* the kernel's global namespace: name -> value, Unbound when not bound
    stack,    \* the call stack of the running activity; <<>> when the kernel is idle
    styler,   \* the Styler the styling cell (or the styling specification) built last
    widgets,  \* the bqplot widgets created so far: selectors, labels, figures, views
    dds,      \* the interact dropdowns created so far, each with its output area
    err,      \* the exceptions raised so far, oldest first
    hist      \* what the last callback run read and wrote, and the frame as generated

vars == <<ns, stack, styler, widgets, dds, err, hist>>

(***************************************************************************)
(* Bounds of the model.                                                    *)
(***************************************************************************)
\* rows of the dataframe (pdt.N in the notebook is 12)
N == 2
\* cell values are drawn from 0..MaxVal
MaxVal == 1
\* the kernel specifications draw the random frame from the seeds 0..MaxSeed
MaxSeed == 1
\* executions of the bqplot cell (each creates one selector, figure and label)
MaxGen == 2
\* dropdowns created by the interact cells
MaxDD == 2
\* Styler.apply passes on one Styler
MaxPasses == 2

(***************************************************************************)
(* The dataframe.                                                          *)
(***************************************************************************)
\* values of the namespace: every one is a record tagged with its kind
Unbound == [k |-> "unbound"]
Obj == [k |-> "obj"]
Str(v) == [k |-> "str", v |-> v]
Ref(i) == [k |-> "ref", id |-> i]

\* pandas.util.testing.getCols(K): the first K upper-case letters (K is 6 in
\* the notebook; two columns are kept here)
Columns == <<"A", "B">>

\* the month starts makeTimeDataFrame(freq='MS') indexes the rows with, as the
\* timestamps numpy prints
Months == <<[date |-> "2000-01-01", time |-> "00:00:00.000000000"],
            [date |-> "2000-02-01", time |-> "00:00:00.000000000"],
            [date |-> "2000-03-01", time |-> "00:00:00.000000000"],
            [date |-> "2000-04-01", time |-> "00:00:00.000000000"]>>

Index == SubSeq(Months, 1, N)

RECURSIVE pow(_, _)
pow(b, e) == IF e = 0 THEN 1 ELSE b * pow(b, e - 1)

\* number of different frames of N rows and Len(Columns) columns
NFrames == pow(MaxVal + 1, N * Len(Columns))

\* pdt.makeTimeDataFrame(freq='MS'): N rows indexed by month starts, one
\* column of random numbers per name.  The random draw is the seed: cell
\* (i, j) is the digit of the seed at place (i-1)*K + (j-1) in base MaxVal+1,
\* so the seeds 0..NFrames-1 give every frame once.
makeTimeDataFrame(seed) ==
    [k |-> "frame", index |-> Index, columns |-> Columns,
     values |-> [i \in 1..N |-> [j \in 1..Len(Columns) |->
        (seed \div pow(MaxVal + 1, (i - 1) * Len(Columns) + (j - 1))) % (MaxVal + 1)]]]

Range(s) == { s[i] : i \in DOMAIN s }

\* position of column c in the frame
ColPos(df, c) == CHOOSE j \in DOMAIN df.columns : df.columns[j] = c

\* df[c]: the column as a Series
getitem(df, c) ==
    [k |-> "series", name |-> c, index |-> df.index,
     values |-> [i \in DOMAIN df.values |-> df.values[i][ColPos(df, c)]]]

\* df[[c]]: a new frame holding the one column
getitems(df, c) ==
    [k |-> "frame", index |-> df.index, columns |-> <<c>>,
     values |-> [i \in DOMAIN df.values |-> <<df.values[i][ColPos(df, c)]>>]]

\* df.rename(columns={old: new}): a new frame, df itself is left as it is
rename(df, old, new) ==
    [df EXCEPT !.columns = [j \in DOMAIN df.columns |->
                              IF df.columns[j] = old THEN new ELSE df.columns[j]]]

(***************************************************************************)
(* highlight, hmin, hmax and the Styler.                                   *)
(***************************************************************************)
RECURSIVE fold(_, _, _, _)
\* Python's min/max over an iterable: keep the first value, replace it by a
\* later one that is strictly smaller (min) or strictly larger (max)
fold(func, s, i, best) ==
    IF i > Len(s) THEN best
    ELSE fold(func, s, i + 1,
              IF (func = "min" /\ s[i] < best) \/ (func = "max" /\ s[i] > best)
              THEN s[i] ELSE best)

builtin(func, s) == fold(func, s, 2, s[1])

\* highlight with <= in place of ==
highlight_le(s, func, color) ==
    LET is_true == [i \in DOMAIN s |-> s[i] <= builtin(func, s)]
    IN  [i \in DOMAIN s |-> IF is_true[i] THEN "background-color: " \o color ELSE ""]

highlight(s, func, color) ==
    LET is_true == [i \in DOMAIN s |-> s[i] = builtin(func, s)]
    IN  [i \in DOMAIN s |-> IF is_true[i] THEN "background-color: " \o color ELSE ""]

hmin(s) == highlight(s, "min", "red")

hmax(s) == highlight(s, "max", "lime")

\* data.style: a Styler over the frame with no style yet
Styler(df) ==
    [k |-> "styler", data |-> df,
     ctx |-> [i \in DOMAIN df.values |-> [j \in DOMAIN df.columns |-> <<>>]],
     passes |-> <<>>]

partial(f, s) == IF f = "hmin" THEN hmin(s) ELSE hmax(s)

\* Styler.apply(f, axis=1): f gets each row
Styler_apply_rows(st, f) ==
    [st EXCEPT
       !.ctx = [i \in DOMAIN st.ctx |-> [j \in DOMAIN st.ctx[i] |->
                  Append(st.ctx[i][j], partial(f, st.data.values[i])[j])]],
       !.passes = Append(st.passes, f)]

\* Styler.apply(f) with the default axis=0: f gets each column as a Series and
\* its i-th result is appended to the styles of the column's i-th cell
Styler_apply(st, f) ==
    [st EXCEPT
       !.ctx = [i \in DOMAIN st.ctx |-> [j \in DOMAIN st.ctx[i] |->
                  Append(st.ctx[i][j],
                         partial(f, getitem(st.data, st.data.columns[j]).values)[i])]],
       !.passes = Append(st.passes, f)]

(***************************************************************************)
(* The cells and the callbacks as statement lists.  A statement names the  *)
(* line it starts at, the global names it reads and binds, whether it      *)
(* calls into a third-party library (and so may raise there) and what it   *)
(* does.  The namespace holds the names that another cell or a callback    *)
(* reads.  Names that only the binding cell reads, after binding them (pd, *)
(* pdt, functools, highlight, hmin, hmax, sns, ax, p, scales, axes, line,  *)
(* mywidgets, the imported classes, and col, source and fig) are locals of *)
(* the cell's run.  Imports do not fail.                                   *)
(***************************************************************************)
Names == {"data", "display", "plt", "fsize", "widgets", "random", "re",
          "selector", "label", "tse"}

S(line, reads, binds, lib, op) ==
    [line |-> line, reads |-> reads, binds |-> binds, lib |-> lib, op |-> op]

setup == <<
    S(42, {}, {"data"}, TRUE, "makeTimeDataFrame"),
    S(43, {"data"}, {}, TRUE, "show") >>

style == <<
    S(79, {"display", "data"}, {}, TRUE, "style") >>

\* the matplotlib cell with fsize not bound as a global
matplotlib_local == <<
    S(99, {}, {"plt"}, FALSE, "bind"),
    S(105, {"data"}, {}, TRUE, "show") >>

matplotlib == <<
    S(99, {}, {"plt", "fsize"}, FALSE, "bind"),
    S(105, {"data", "fsize"}, {}, TRUE, "show") >>

seaborn == <<
    S(133, {"plt", "fsize"}, {}, TRUE, "show"),
    S(135, {"data"}, {}, TRUE, "show") >>

bokeh == <<
    S(163, {}, {"random"}, FALSE, "bind"),
    S(169, {}, {}, TRUE, "show"),
    S(172, {"random", "data"}, {}, FALSE, "choice"),
    S(173, {"data"}, {}, TRUE, "ColumnDataSource"),
    S(175, {}, {}, TRUE, "show") >>

\* the bqplot cell with a selection assigned right after observe
bqplot_selects == <<
    S(212, {}, {"widgets", "random", "re"}, FALSE, "bind"),
    S(230, {"random", "data"}, {}, FALSE, "choice"),
    S(231, {"data"}, {}, FALSE, "getitem"),
    S(234, {}, {}, TRUE, "show"),
    S(248, {}, {"selector"}, TRUE, "IndexSelector"),
    S(249, {"selector"}, {}, FALSE, "observe"),
    S(249, {"selector"}, {}, FALSE, "set_selected"),
    S(251, {"selector", "widgets"}, {}, TRUE, "Figure"),
    S(257, {"widgets"}, {"label"}, TRUE, "Label"),
    S(258, {"widgets", "label"}, {}, TRUE, "VBox") >>

\* the bqplot cell with the figure displayed before the label is created
bqplot_shows_first == <<
    S(212, {}, {"widgets", "random", "re"}, FALSE, "bind"),
    S(230, {"random", "data"}, {}, FALSE, "choice"),
    S(231, {"data"}, {}, FALSE, "getitem"),
    S(234, {}, {}, TRUE, "show"),
    S(248, {}, {"selector"}, TRUE, "IndexSelector"),
    S(249, {"selector"}, {}, FALSE, "observe"),
    S(251, {"selector", "widgets"}, {}, TRUE, "Figure"),
    S(258, {"widgets"}, {}, TRUE, "VBox"),
    S(257, {"widgets"}, {"label"}, TRUE, "Label") >>

bqplot == <<
    S(212, {}, {"widgets", "random", "re"}, FALSE, "bind"),
    S(230, {"random", "data"}, {}, FALSE, "choice"),
    S(231, {"data"}, {}, FALSE, "getitem"),
    S(234, {}, {}, TRUE, "show"),
    S(248, {}, {"selector"}, TRUE, "IndexSelector"),
    S(249, {"selector"}, {}, FALSE, "observe"),
    S(251, {"selector", "widgets"}, {}, TRUE, "Figure"),
    S(257, {"widgets"}, {"label"}, TRUE, "Label"),
    S(258, {"widgets", "label"}, {}, TRUE, "VBox") >>

index_sel_dt_callback == <<
    S(225, {"selector"}, {}, FALSE, "if_selected"),
    S(226, {"re", "selector"}, {}, FALSE, "split"),
    S(227, {"label"}, {}, FALSE, "set_value") >>

interact1 == <<
    S(276, {}, {"widgets", "display"}, FALSE, "bind"),
    S(282, {"widgets", "data"}, {}, TRUE, "interact") >>

interact2 == <<
    S(305, {"widgets", "data"}, {}, TRUE, "interact") >>

select_series == <<
    S(292, {"data"}, {}, FALSE, "series"),
    S(293, {"fsize"}, {}, TRUE, "plot") >>

tse1 == <<
    S(338, {"data", "widgets"}, {"tse"}, TRUE, "bind"),
    S(339, {"tse"}, {}, TRUE, "show") >>

tse2 == <<
    S(350, {"tse"}, {}, TRUE, "show") >>

tse3 == <<
    S(359, {"tse"}, {}, TRUE, "show") >>

tse4 == <<
    S(368, {"tse"}, {}, TRUE, "show"),
    S(369, {"tse"}, {}, TRUE, "show") >>

\* the code cells in notebook order
CellOrder == <<"setup", "style", "matplotlib", "seaborn", "bokeh", "bqplot",
               "interact1", "interact2", "tse1", "tse2", "tse3", "tse4">>

Cells == Range(CellOrder)

Callbacks == {"index_sel_dt_callback", "select_series"}

Prog(act) ==
    CASE act = "setup" -> setup
      [] act = "style" -> style
      [] act = "matplotlib" -> matplotlib
      [] act = "seaborn" -> seaborn
      [] act = "bokeh" -> bokeh
      [] act = "bqplot" -> bqplot
      [] act = "interact1" -> interact1
      [] act = "interact2" -> interact2
      [] act = "tse1" -> tse1
      [] act = "tse2" -> tse2
      [] act = "tse3" -> tse3
      [] act = "tse4" -> tse4
      [] act = "index_sel_dt_callback" -> index_sel_dt_callback
      [] act = "select_series" -> select_series

(***************************************************************************)
(* Widgets.                                                                *)
(***************************************************************************)
\* values of IndexSelector.selected: None, or an array of timestamps
NoneSel == [k |-> "None", v |-> <<>>]
Arr(v) == [k |-> "array", v |-> v]

\* the timestamps a brush can pick on the date scale: the index values and a
\* point between two of them
Brushable == Range(Index) \cup {[date |-> Index[1].date, time |-> "12:00:00.000000000"]}

Selections == {NoneSel, Arr(<<>>)} \cup { Arr(<<t>>) : t \in Brushable }

\* bool(selector.selected): None and the empty array are false
truthy(sel) == sel.k = "array" /\ Len(sel.v) > 0

\* str(numpy.datetime64), as its parts: the date, the letter T, the time
str(t) == <<t.date, "T", t.time>>

RECURSIVE re_split(_, _)
\* re.split(r'T', s): the pieces of s between the T's, in order
re_split(s, piece) ==
    IF s = <<>> THEN <<piece>>
    ELSE IF Head(s) = "T" THEN <<piece>> \o re_split(Tail(s), <<>>)
    ELSE re_split(Tail(s), Append(piece, Head(s)))

\* re.split(r'T', str(selected[0]))[0]
date_of(sel) == re_split(str(sel.v[1]), <<>>)[1]

NoOutput == [k |-> "none"]
Traceback == [k |-> "traceback"]
Chart(series) == [k |-> "chart", name |-> series.name, values |-> series.values]

NoErr == [kind |-> "none", act |-> "", line |-> 0]
NoCall == [owner |-> 0, read |-> 0, wrote |-> 0]

Frame(act) ==
    [act |-> act, pc |-> 1, dd |-> 0, col |-> "", source |-> Unbound, fig |-> 0,
     owner |-> 0, date |-> <<>>]

Top == stack[Len(stack)]
Pop == SubSeq(stack, 1, Len(stack) - 1)
Stmt(f) == Prog(f.act)[f.pc]
Running(f) == f.pc <= Len(Prog(f.act))
Bound(names) == \A n \in names : ns[n].k # "unbound"
Idle == stack = <<>>

(***************************************************************************)
(* What one statement does.                                                *)
(***************************************************************************)
\* line 173 with rename(..., inplace=True) on data itself
ColumnDataSource_inplace(df, col) ==
    [data |-> rename(df, col, "series"),
     source |-> rename(getitems(df, col), col, "series")]

\* line 173: source = ColumnDataSource(data[[col]].rename(columns={col: 'series'})):
\* the frame `data` names afterwards, and the new source
ColumnDataSource(df, col) ==
    [data |-> df, source |-> rename(getitems(df, col), col, "series")]

\* lines 292, 315 reading the first column whatever the parameter
series_of_first(f) == getitem(ns["data"], ns["data"].columns[1])

\* lines 292, 315: series = data[col], col being the callback's parameter
series_of(f) == getitem(ns["data"], f.col)

\* lines 282, 305: the Dropdown interact builds from data.columns, showing the
\* first option
Dropdown(df) ==
    [options |-> df.columns, value |-> df.columns[1], arg |-> "", out |-> NoOutput]

\* what the statement draws at random
Inputs(st) ==
    CASE st.op = "makeTimeDataFrame" -> 0..MaxSeed
      [] st.op = "choice" -> Range(ns["data"].columns)
      [] OTHER -> {0}

NsAfter(st, f, x) ==
    CASE st.op = "makeTimeDataFrame" -> [ns EXCEPT !["data"] = makeTimeDataFrame(x)]
      [] st.op = "ColumnDataSource" ->
           [ns EXCEPT !["data"] = ColumnDataSource(ns["data"], f.col).data]
      [] st.op = "IndexSelector" -> [ns EXCEPT !["selector"] = Ref(Len(widgets.sels) + 1)]
      [] st.op = "Label" -> [ns EXCEPT !["label"] = Ref(Len(widgets.labels) + 1)]
      [] st.op = "bind" -> [n \in Names |-> IF n \in st.binds THEN Obj ELSE ns[n]]
      [] OTHER -> ns

WidgetsAfter(st, f) ==
    CASE st.op = "IndexSelector" ->
           [widgets EXCEPT !.sels = Append(@,
               [selected |-> NoneSel, observed |-> FALSE, last |-> NoneSel])]
      [] st.op = "observe" ->
           [widgets EXCEPT !.sels[ns["selector"].id].observed = TRUE]
      [] st.op = "Figure" ->
           [widgets EXCEPT !.figs = Append(@, [interaction |-> ns["selector"].id])]
      [] st.op = "Label" ->
           [widgets EXCEPT !.labels = Append(@, [value |-> <<>>])]
      [] st.op = "VBox" ->
           [widgets EXCEPT !.boxes = Append(@,
               [fig |-> f.fig,
                label |-> IF Bound({"label"}) THEN ns["label"].id ELSE 0])]
      [] st.op = "set_value" ->
           [widgets EXCEPT !.labels[ns["label"].id].value = f.date]
      [] st.op = "set_selected" ->
           [widgets EXCEPT !.sels[ns["selector"].id].selected = Arr(<<Index[1]>>),
                           !.sels[ns["selector"].id].last = Arr(<<Index[1]>>)]
      [] OTHER -> widgets

DdsAfter(st, f) ==
    CASE st.op = "interact" ->
           Append(dds, [Dropdown(ns["data"]) EXCEPT !.arg = ns["data"].columns[1]])
      [] st.op = "plot" -> [dds EXCEPT ![f.dd].out = Chart(f.source)]
      [] OTHER -> dds

StylerAfter(st) ==
    IF st.op = "style"
    THEN Styler_apply(Styler_apply(Styler(ns["data"]), "hmin"), "hmax")
    ELSE styler

\* the running frame after the statement: the next statement, or past the
\* last one when the if of line 225 finds nothing selected
FrameAfter(st, f, x) ==
    CASE st.op = "choice" -> [f EXCEPT !.pc = @ + 1, !.col = x]
      [] st.op = "ColumnDataSource" ->
           [f EXCEPT !.pc = @ + 1, !.source = ColumnDataSource(ns["data"], f.col).source]
      [] st.op = "getitem" -> [f EXCEPT !.pc = @ + 1, !.source = getitem(ns["data"], f.col)]
      [] st.op = "Figure" -> [f EXCEPT !.pc = @ + 1, !.fig = Len(widgets.figs) + 1]
      [] st.op = "if_selected" ->
           IF truthy(widgets.sels[ns["selector"].id].selected)
           THEN [f EXCEPT !.pc = @ + 1]
           ELSE [f EXCEPT !.pc = Len(Prog(f.act)) + 1]
      [] st.op = "split" ->
           [f EXCEPT !.pc = @ + 1,
                     !.date = date_of(widgets.sels[ns["selector"].id].selected)]
      [] st.op = "series" -> [f EXCEPT !.pc = @ + 1, !.source = series_of(f)]
      [] OTHER -> [f EXCEPT !.pc = @ + 1]

\* interact calls the decorated function at once with the dropdown's value;
\* an assignment to selector.selected (no statement of the notebook makes one)
\* would call the observers at once
StackAfter(st, f, x) ==
    CASE st.op = "interact" ->
           Pop \o <<FrameAfter(st, f, x),
                    [Frame("select_series") EXCEPT !.dd = Len(dds) + 1,
                                                   !.col = ns["data"].columns[1]]>>
      [] st.op = "set_selected" /\ widgets.sels[ns["selector"].id].observed ->
           Pop \o <<FrameAfter(st, f, x),
                    [Frame("index_sel_dt_callback") EXCEPT !.owner = ns["selector"].id]>>
      [] OTHER -> Pop \o <<FrameAfter(st, f, x)>>

HistAfter(st) ==
    CASE st.op = "if_selected" -> [hist EXCEPT !.read = ns["selector"].id]
      [] st.op = "set_value" -> [hist EXCEPT !.wrote = ns["label"].id]
      [] OTHER -> hist

(***************************************************************************)
(* The kernel: one activity at a time, statement by statement.             *)
(***************************************************************************)
Init ==
    /\ ns = [n \in Names |-> IF n = "display" THEN Obj ELSE Unbound]
    /\ stack = <<>>
    /\ styler = [k |-> "none"]
    /\ widgets = [sels |-> <<>>, figs |-> <<>>, labels |-> <<>>, boxes |-> <<>>]
    /\ dds = <<>>
    /\ err = NoErr
    /\ hist = NoCall

\* the user runs a cell when the kernel is idle
RunCell(c) ==
    /\ Idle
    /\ c = "setup" => ~Bound({"data"})
    /\ c = "bqplot" => Len(widgets.sels) < MaxGen
    /\ c \in {"interact1", "interact2"} => Len(dds) < MaxDD
    /\ stack' = <<Frame(c)>>
    /\ err' = NoErr
    /\ hist' = NoCall
    /\ UNCHANGED <<ns, styler, widgets, dds>>

\* the running activity executes its next statement
Exec ==
    /\ ~Idle
    /\ Running(Top)
    /\ Bound(Stmt(Top).reads)
    /\ \E x \in Inputs(Stmt(Top)) :
         /\ ns' = NsAfter(Stmt(Top), Top, x)
         /\ widgets' = WidgetsAfter(Stmt(Top), Top)
         /\ dds' = DdsAfter(Stmt(Top), Top)
         /\ styler' = StylerAfter(Stmt(Top))
         /\ stack' = StackAfter(Stmt(Top), Top, x)
         /\ hist' = HistAfter(Stmt(Top))
         /\ err' = err

\* the running activity ends after its last statement; its caller goes on
Return ==
    /\ ~Idle
    /\ ~Running(Top)
    /\ stack' = Pop
    /\ UNCHANGED <<ns, styler, widgets, dds, err, hist>>

\* an exception swallowed where it is raised: the activity goes on with its
\* next statement
Raise_swallow(kind) ==
    /\ stack' = Pop \o <<[Top EXCEPT !.pc = @ + 1]>>
    /\ err' = [kind |-> kind, act |-> Top.act, line |-> Stmt(Top).line]
    /\ UNCHANGED <<ns, styler, widgets, dds, hist>>

\* an exception leaves the activity it is raised in: no statement of the
\* notebook catches one.  interact shows the traceback of its function in
\* the dropdown's output area.
Raise(kind) ==
    /\ stack' = Pop
    /\ err' = [kind |-> kind, act |-> Top.act, line |-> Stmt(Top).line]
    /\ dds' = IF Top.act = "select_series"
              THEN [dds EXCEPT ![Top.dd].out = Traceback] ELSE dds
    /\ UNCHANGED <<ns, styler, widgets, hist>>

\* the next statement reads a name that is not bound
NameError ==
    /\ ~Idle
    /\ Running(Top)
    /\ ~Bound(Stmt(Top).reads)
    /\ Raise("NameError")

\* the library call of the next statement raises
LibraryError ==
    /\ ~Idle
    /\ Running(Top)
    /\ Bound(Stmt(Top).reads)
    /\ Stmt(Top).lib
    /\ Raise("LibraryError")

\* the user brushes on a displayed figure: the selector's selected changes
\* and the observers registered on it are called
Brush(b, v) ==
    /\ Idle
    /\ LET s == widgets.figs[widgets.boxes[b].fig].interaction
       IN  /\ v # widgets.sels[s].selected
           /\ widgets' = [widgets EXCEPT
                  !.sels[s].selected = v,
                  !.sels[s].last = IF truthy(v) THEN v ELSE @]
           /\ stack' = IF widgets.sels[s].observed
                       THEN <<[Frame("index_sel_dt_callback") EXCEPT !.owner = s]>>
                       ELSE <<>>
           /\ hist' = [NoCall EXCEPT !.owner = s]
    /\ err' = NoErr
    /\ UNCHANGED <<ns, styler, dds>>

\* the user picks another option of a dropdown: interact calls its function
DropdownChange(d, c) ==
    /\ Idle
    /\ c # dds[d].value
    /\ dds' = [dds EXCEPT ![d].value = c, ![d].arg = c]
    /\ stack' = <<[Frame("select_series") EXCEPT !.dd = d, !.col = c]>>
    /\ err' = NoErr
    /\ hist' = NoCall
    /\ UNCHANGED <<ns, styler, widgets>>

\* the cells of the notebook whose code the source holds (the tse cells call
\* into mywidgets)
OwnCells == {"setup", "style", "matplotlib", "seaborn", "bokeh", "bqplot",
             "interact1", "interact2"}

Next ==
    \/ \E c \in OwnCells : RunCell(c)
    \/ Exec
    \/ Return
    \/ NameError
    \/ LibraryError
    \/ \E b \in DOMAIN widgets.boxes : \E v \in Selections : Brush(b, v)
    \/ \E d \in DOMAIN dds : \E c \in Range(dds[d].options) : DropdownChange(d, c)

Spec == Init /\ [][Next]_vars

\* the notebook's bqplot part: the setup cell, the bqplot cell, the brush
NextBq ==
    \/ \E c \in {"setup", "bqplot"} : RunCell(c)
    \/ Exec
    \/ Return
    \/ NameError
    \/ LibraryError
    \/ \E b \in DOMAIN widgets.boxes : \E v \in Selections : Brush(b, v)

SpecBq == Init /\ [][NextBq]_vars

\* the notebook's interact part: the setup, matplotlib and interact cells and
\* the dropdowns
NextInteract ==
    \/ \E c \in {"setup", "matplotlib", "interact1", "interact2"} : RunCell(c)
    \/ Exec
    \/ Return
    \/ NameError
    \/ LibraryError
    \/ \E d \in DOMAIN dds : \E c \in Range(dds[d].options) : DropdownChange(d, c)

SpecInteract == Init /\ [][NextInteract]_vars

\* the cells alone, no widget event
NextCells ==
    \/ \E c \in Cells : RunCell(c)
    \/ Exec
    \/ Return
    \/ NameError
    \/ LibraryError

SpecCells == Init /\ [][NextCells]_vars

\* the styling alone: a Styler over any frame, hmin and hmax applied in any order
InitStyle ==
    /\ \E seed \in 0..(NFrames - 1) : styler = Styler(makeTimeDataFrame(seed))
    /\ ns = [n \in Names |-> IF n = "display" THEN Obj ELSE Unbound]
    /\ stack = <<>>
    /\ widgets = [sels |-> <<>>, figs |-> <<>>, labels |-> <<>>, boxes |-> <<>>]
    /\ dds = <<>>
    /\ err = NoErr
    /\ hist = NoCall

apply(f) ==
    /\ Len(styler.passes) < MaxPasses
    /\ styler' = Styler_apply(styler, f)
    /\ UNCHANGED <<ns, stack, widgets, dds, err, hist>>

NextStyle == \E f \in {"hmin", "hmax"} : apply(f)

SpecStyle == InitStyle /\ [][NextStyle]_vars

(***************************************************************************)
(* Properties of the notebook.                                             *)
(***************************************************************************)
Red == "background-color: red"
Lime == "background-color: lime"

\* the values of column j of a Styler's frame
ColumnValues(st, j) == [i \in DOMAIN st.data.values |-> st.data.values[i][j]]

\* the least and the greatest value of a series, by their defining property
Least(s) == CHOOSE v \in Range(s) : \A x \in Range(s) : v <= x
Greatest(s) == CHOOSE v \in Range(s) : \A x \in Range(s) : v >= x

Extreme(f, s) == IF f = "hmin" THEN Least(s) ELSE Greatest(s)
ColorOf(f) == IF f = "hmin" THEN Red ELSE Lime

\* C6: highlight(s, func, color) returns a list as long as s whose i-th entry
\* is 'background-color: <color>' when s[i] equals func(s) and '' otherwise;
\* so every pass of hmin (red) or hmax (lime) over a column colours every
\* cell holding the column's extreme value, at least one, and no other.
C6_HighlightMarksExtremes ==
    \A p \in DOMAIN styler.passes : \A j \in DOMAIN styler.data.columns :
        LET s == ColumnValues(styler, j)
            func == IF styler.passes[p] = "hmin" THEN "min" ELSE "max"
            out == highlight(s, func, IF func = "min" THEN "red" ELSE "lime")
        IN  /\ DOMAIN out = DOMAIN s
            /\ \A i \in DOMAIN s :
                 /\ out[i] = IF s[i] = Extreme(styler.passes[p], s)
                             THEN ColorOf(styler.passes[p]) ELSE ""
                 /\ styler.ctx[i][j][p] = out[i]
            /\ \E i \in DOMAIN s : styler.ctx[i][j][p] = ColorOf(styler.passes[p])

\* a column with a tied minimum, both ties coloured by a pass of hmin
C6_Witness ==
    /\ styler.k = "styler"
    /\ \E p \in DOMAIN styler.passes : \E j \in DOMAIN styler.data.columns :
         /\ styler.passes[p] = "hmin"
         /\ \E i1, i2 \in DOMAIN styler.ctx :
              /\ i1 # i2
              /\ styler.ctx[i1][j][p] = Red
              /\ styler.ctx[i2][j][p] = Red
    /\ \E p \in DOMAIN styler.passes : \E j \in DOMAIN styler.data.columns :
         \E i \in DOMAIN styler.ctx : styler.ctx[i][j][p] = ""

BothApplied == Range(styler.passes) = {"hmin", "hmax"} /\ Len(styler.passes) = 2

\* C10: once hmin and hmax are both applied, in either order, the cells of a
\* column that carry the red style are exactly those equal to the column's
\* minimum, those that carry the lime style exactly those equal to its
\* maximum, and a cell carries both exactly when all values of its column
\* are equal.
C10_PassesDoNotInterfere ==
    BothApplied =>
        \A j \in DOMAIN styler.data.columns : \A i \in DOMAIN styler.ctx :
            LET s == ColumnValues(styler, j)
                styles == Range(styler.ctx[i][j])
            IN  /\ Red \in styles <=> s[i] = Least(s)
                /\ Lime \in styles <=> s[i] = Greatest(s)
                /\ (Red \in styles /\ Lime \in styles) <=>
                       (\A a, b \in DOMAIN s : s[a] = s[b])

\* hmax applied before hmin, on a frame with a constant column (both styles)
\* and a column whose minimum and maximum differ
C10_Witness ==
    /\ styler.k = "styler"
    /\ styler.passes = <<"hmax", "hmin">>
    /\ \E j \in DOMAIN styler.data.columns : \E i \in DOMAIN styler.ctx :
         Red \in Range(styler.ctx[i][j]) /\ Lime \in Range(styler.ctx[i][j])
    /\ \E j \in DOMAIN styler.data.columns : \E i \in DOMAIN styler.ctx :
         Range(styler.ctx[i][j]) = {Red, ""}

\* C1: once generated, the frame `data` names is never changed: no statement
\* of the styling, plotting, bokeh, bqplot and interact cells and no callback
\* changes its values, its row index or its column names.
C1_DataNeverMutated ==
    [][Bound({"data"}) => ns'["data"] = ns["data"]]_vars

\* the bokeh cell has built its renamed source while a styled table, a chart
\* of an interact dropdown and a label written by a brush are on display
C1_Witness ==
    /\ Len(stack) = 1
    /\ Top.act = "bokeh"
    /\ Top.source.k = "frame"
    /\ Top.source.columns = <<"series">>
    /\ ns["data"].columns = Columns
    /\ styler.k = "styler"
    /\ \E d \in DOMAIN dds : dds[d].out.k = "chart"
    /\ \E l \in DOMAIN widgets.labels : widgets.labels[l].value # <<>>

\* C2: every change of a dropdown calls select_series with exactly the chosen
\* column, which plots that column of data: the argument of the last call is
\* the dropdown's value, a chart on display is the series of the selected
\* column, and every option is a column of data.
C2_ChartFollowsDropdown ==
    /\ \A i \in DOMAIN stack :
         stack[i].act = "select_series" => stack[i].col = dds[stack[i].dd].value
    /\ \A d \in DOMAIN dds :
         /\ Range(dds[d].options) \subseteq Range(ns["data"].columns)
         /\ dds[d].arg = dds[d].value
         /\ Idle => dds[d].out.k \in {"chart", "traceback"}
         /\ (Idle /\ dds[d].out.k = "chart") =>
              /\ dds[d].out.name = dds[d].value
              /\ \A i \in DOMAIN ns["data"].values :
                   dds[d].out.values[i] =
                     ns["data"].values[i][ColPos(ns["data"], dds[d].value)]

\* both dropdowns show a chart, one of them after a change to the second column
C2_Witness ==
    /\ Idle
    /\ Len(dds) = 2
    /\ \A d \in DOMAIN dds : dds[d].out.k = "chart"
    /\ \E d \in DOMAIN dds : dds[d].value = dds[d].options[2]
    /\ \E i \in DOMAIN ns["data"].values : ns["data"].values[i][1] # ns["data"].values[i][2]

\* the cells above c in the notebook, and the names a cell binds
Above(c) == { CellOrder[i] : i \in { k \in DOMAIN CellOrder :
                \E m \in DOMAIN CellOrder : CellOrder[m] = c /\ k < m } }
BindsOf(c) == UNION { Prog(c)[k].binds : k \in DOMAIN Prog(c) }
BoundNames == { n \in Names : ns[n].k # "unbound" }

\* C3 as stated: a cell other than the setup cell, run in a kernel where only
\* the setup cell (and the cell itself) has bound names, reads no unbound name.
C3_CellsIndependent ==
    \A c \in Cells \ {"setup"} :
        (/\ ~Idle
         /\ stack[1].act = c
         /\ Running(Top)
         /\ Bound({"data"})
         /\ BoundNames \subseteq {"data", "display"} \cup BindsOf(c))
        => Bound(Stmt(Top).reads)

\* C3, amended: a cell run in a kernel where every name the cells above it
\* bind is bound (as after they have run) reads no unbound name, in its own
\* statements and in the call interact makes of select_series.
C3_TopToBottom ==
    \A c \in Cells :
        (/\ ~Idle
         /\ stack[1].act = c
         /\ Running(Top)
         /\ Bound(UNION { BindsOf(a) : a \in Above(c) }))
        => Bound(Stmt(Top).reads)

\* the second interact cell, after the cells above it, inside select_series at
\* the plot that reads fsize
C3_Witness ==
    /\ Len(stack) = 2
    /\ stack[1].act = "interact2"
    /\ Top.act = "select_series"
    /\ Top.pc = 2
    /\ Bound(UNION { BindsOf(a) : a \in Above("interact2") })

\* C4 as stated: no callback starts while a cell or another callback is
\* still running.
C4_OneActivity == Len(stack) <= 1

\* C4, amended: one activity executes at a time; a callback starts from an
\* event only when the kernel is idle, and the one callback that starts while
\* a cell is running is select_series, called by interact inside the interact
\* cell, which waits for it.
C4_Synchronous ==
    /\ Len(stack) <= 2
    /\ ~Idle => stack[1].act \in Cells \cup Callbacks
    /\ Len(stack) = 2 =>
         /\ stack[1].act \in {"interact1", "interact2"}
         /\ stack[1].pc > 1
         /\ Prog(stack[1].act)[stack[1].pc - 1].op = "interact"
         /\ stack[2].act = "select_series"

\* a brush callback runs alone; elsewhere select_series runs inside interact2
C4_Witness ==
    /\ Len(stack) = 2
    /\ stack[1].act = "interact2"
    /\ Top.act = "select_series"
    /\ Top.pc = 2
    /\ \E l \in DOMAIN widgets.labels : widgets.labels[l].value # <<>>

\* C5: a failure inside a cell or a callback leaves that activity at once:
\* its remaining statements are dropped with it, nothing is run in its place,
\* and data, the other names, the widgets and the styled table are as before.
C5_FailurePropagates ==
    [][(err' # err /\ err'.kind # "none") =>
          /\ ~Idle
          /\ Running(Top)
          /\ err'.act = Top.act
          /\ err'.line = Stmt(Top).line
          /\ stack' = Pop
          /\ ns' = ns
          /\ widgets' = widgets
          /\ styler' = styler]_vars

\* the bqplot cell failed at Figure(...) on its second run: its selector is
\* bound, the figure, the label and the box of that run do not exist
C5_Witness ==
    /\ Idle
    /\ err.kind = "LibraryError"
    /\ err.act = "bqplot"
    /\ err.line = 251
    /\ Len(widgets.sels) = 2
    /\ Len(widgets.figs) = 1
    /\ Len(widgets.labels) = 1
    /\ Len(widgets.boxes) = 1

\* the selector and the label displayed in box b
SelOf(b) == widgets.figs[widgets.boxes[b].fig].interaction
LabelOf(b) == widgets.boxes[b].label

\* C7: after any changes of a figure's selection, the label under the figure
\* is the date part of the first element of the most recent non-empty
\* selection, and the empty string before the first one.
C7_LabelFollowsSelection ==
    Idle =>
      \A b \in DOMAIN widgets.boxes :
        widgets.labels[LabelOf(b)].value =
          IF truthy(widgets.sels[SelOf(b)].last)
          THEN <<widgets.sels[SelOf(b)].last.v[1].date>>
          ELSE <<>>

\* C8: index_sel_dt_callback never runs while selector or label is unbound.
C8_CallbackFindsGlobals ==
    \A i \in DOMAIN stack :
        stack[i].act = "index_sel_dt_callback" => Bound({"selector", "label", "re"})

\* the callback writes the label after an earlier run of the cell failed
\* between creating its selector and creating its label
C8_Witness ==
    /\ ~Idle
    /\ Top.act = "index_sel_dt_callback"
    /\ Top.pc = 3
    /\ Len(widgets.sels) > Len(widgets.labels)

\* C9: a brush on a figure reads only the selection of that figure's own
\* selector and writes only the label displayed with that figure.
C9_OwnWidgetsOnly ==
    hist.owner # 0 =>
      /\ hist.read \in {0, hist.owner}
      /\ hist.wrote # 0 =>
           \E b \in DOMAIN widgets.boxes : SelOf(b) = hist.owner /\ LabelOf(b) = hist.wrote

====
